---------------------------- MODULE Spec2Model ----------------------------
(***************************************************************************)
(* Live-reload core of gosrv.  The repository holds two generations of    *)
(* the program:                                                            *)
(*   src/main.go           - Server-Sent-Events hub (one unbuffered       *)
(*                           chan bool per client) + polling detector     *)
(*   src/unnamed/part_001  - WebSocket hub (one *websocket.Conn per       *)
(*                           client) + fsnotify detector with a debounce  *)
(* Both keep the registry in the global map `clients` guarded by          *)
(* `clientsMu`.  The hub variables below are shared by the two hub        *)
(* specifications (SpecSSE, SpecWS); the detector of part_001 has its own *)
(* specification (SpecWatch).                                              *)
(***************************************************************************)
EXTENDS Integers, Sequences, FiniteSets, TLC

(***************************************************************************)
(* Bounds of the model.                                                    *)
(***************************************************************************)
NClients == 2          \* connections accepted during a run
MaxBroadcasts == 2     \* calls of notifyClients during a run

MaxTime == 150         \* the clock stops advancing at this many milliseconds
MaxOps == 3            \* file-system operations performed during a run
MaxQueue == 2          \* raw events waiting in watcher.Events

MaxPolls == 2          \* ticks of the polling detector during a run
MaxFsOps == 2          \* changes made to the polled tree during a run
MaxMtime == 2          \* modification times are 1..MaxMtime

Handles == 1..NClients

VARIABLES
    \* ---- hub state (main.go and part_001) ----
    clients,      \* the registry: set of handles that are keys of the map
    clientsMu,    \* "unlocked" | "notifyClients" (handler sections are atomic)
    pc,           \* pc[c]: position of the session endpoint serving handle c
    conn,         \* conn[c]: transport towards the browser: "open"|"stalled"|"dead"
    closeCalls,   \* closeCalls[c]: close(messageChan) / conn.Close() calls so far
    recv,         \* recv[c]: broadcast whose message the SSE endpoint holds, 0 = none
    frames,       \* frames[c]: reload frames written to client c (broadcast numbers)
    npc,          \* position of the detector task inside/outside notifyClients
    todo,         \* entries of the map the running range loop has not yet produced
    cur,          \* the client the WebSocket broadcaster is writing to, 0 = none
    nb,           \* number of notifyClients calls so far (number of the current one)
    passStart,    \* registry when the running pass took the lock ({} outside a pass)
    deadAtStart,  \* handles of passStart whose transport was already dead then
    delivered,    \* handles the running pass delivered to
    failed,       \* handles the running pass got a write error from
    panicked,     \* TRUE once a send on a closed channel has panicked
    \* ---- detector state (part_001, watchForChanges) ----
    tree,         \* paths that exist under the watched root (root itself is <<>>)
    watched,      \* directories registered with the fsnotify watcher
    events,       \* watcher.Events: raw events not yet received by the loop
    now,          \* the clock, in milliseconds since the detector started
    lastEvent,    \* the debouncer's timestamp (ZeroTime before the first forward)
    raw,          \* times at which a raw signal reached the debouncer
    fwd,          \* calls of notifyClients made by the loop: [at, name, op]
    ops,          \* file-system operations performed so far
    \* ---- detector state (main.go, watchDirectoryForChanges) ----
    rootName,     \* base name of the absolute path of the served directory
    fs,           \* the polled tree: path |-> modification time, for existing paths
    ppc,          \* "init" | "loop" | "fatal" (log.Fatal has ended the process)
    prevFiles,    \* the baseline snapshot
    prevBefore,   \* the baseline the last successful cycle compared against
    lastScan,     \* outcome of the last scan: "none" | "ok" | "error"
    polls,        \* ticks received so far
    notified,     \* calls of notifyClients made by the polling loop
    fsOps         \* changes made to the polled tree so far

hubVars == <<clients, clientsMu, pc, conn, closeCalls, recv, frames, npc, todo,
             cur, nb, passStart, deadAtStart, delivered, failed, panicked>>

watchVars == <<tree, watched, events, now, lastEvent, raw, fwd, ops>>

pollVars == <<rootName, fs, ppc, prevFiles, prevBefore, lastScan, polls, notified, fsOps>>

\* everything outside the hub: left alone by every step of the hub
detectorVars == <<watchVars, pollVars>>

vars == <<hubVars, watchVars, pollVars>>

(***************************************************************************)
(* Go builtins on the registry map.                                        *)
(***************************************************************************)
\* delete(m, k) of a slice-backed registry: an absent key drops another entry
MapDeleteSliceBug(m, k) ==
    IF k \in m THEN m \ {k}
    ELSE IF m = {} THEN m ELSE m \ {CHOOSE x \in m : TRUE}

\* delete(clients, k): removes k if present, no-op (no panic) otherwise
MapDelete(m, k) == m \ {k}

\* clients[k] = true
MapInsert(m, k) == m \cup {k}

(***************************************************************************)
(* State after construction: nothing registered, all handlers not yet     *)
(* invoked, detector waiting.                                              *)
(***************************************************************************)
InitHub ==
    /\ clients = {}
    /\ clientsMu = "unlocked"
    /\ pc = [c \in Handles |-> "start"]
    /\ conn = [c \in Handles |-> "open"]
    /\ closeCalls = [c \in Handles |-> 0]
    /\ recv = [c \in Handles |-> 0]
    /\ frames = [c \in Handles |-> <<>>]
    /\ npc = "wait"
    /\ todo = {}
    /\ cur = 0
    /\ nb = 0
    /\ passStart = {}
    /\ deadAtStart = {}
    /\ delivered = {}
    /\ failed = {}
    /\ panicked = FALSE

passVars == <<passStart, deadAtStart, delivered, failed>>
notifierVars == <<npc, todo, cur, nb, passStart, deadAtStart, delivered, failed>>

(***************************************************************************)
(* The browser side and the network: a connection can stop draining       *)
(* (a synchronous WriteMessage to it neither completes nor fails) and can *)
(* die (every read and write on it fails, CloseNotify fires).             *)
(***************************************************************************)
PeerStall(c) ==
    /\ pc[c] # "done"
    /\ conn[c] = "open"
    /\ conn' = [conn EXCEPT ![c] = "stalled"]
    /\ UNCHANGED <<clients, clientsMu, pc, closeCalls, recv, frames, notifierVars, panicked>>
    /\ UNCHANGED detectorVars

PeerClose(c) ==
    /\ pc[c] # "done"
    /\ conn[c] \in {"open", "stalled"}
    /\ conn' = [conn EXCEPT ![c] = "dead"]
    /\ UNCHANGED <<clients, clientsMu, pc, closeCalls, recv, frames, notifierVars, panicked>>
    /\ UNCHANGED detectorVars

(***************************************************************************)
(* The detector task up to its call of notifyClients, and the part of     *)
(* notifyClients common to both hubs.                                      *)
(***************************************************************************)
\* a change was detected: `if changes { notifyClients() }` / `notifyClients()`
DetectChange ==
    /\ npc = "wait"
    /\ nb < MaxBroadcasts
    /\ nb' = nb + 1
    /\ npc' = "lock"
    /\ UNCHANGED <<clients, clientsMu, pc, conn, closeCalls, recv, frames, todo, cur,
                   passVars, panicked>>
    /\ UNCHANGED detectorVars

\* clientsMu.Lock() and the start of `for client := range clients`
notifyClients_Lock ==
    /\ npc = "lock"
    /\ clientsMu = "unlocked"
    /\ clientsMu' = "notifyClients"
    /\ todo' = clients
    /\ passStart' = clients
    /\ deadAtStart' = {c \in clients : conn[c] = "dead"}
    /\ delivered' = {}
    /\ failed' = {}
    /\ npc' = "range"
    /\ UNCHANGED <<clients, pc, conn, closeCalls, recv, frames, cur, nb, panicked>>
    /\ UNCHANGED detectorVars

\* notifyClients with `if len(clients) == 0 { return }` between the Lock and an
\* Unlock that is not deferred: the empty pass returns with the lock held
notifyClients_UnlockSkipEmpty ==
    /\ npc = "range"
    /\ todo = {}
    /\ clientsMu' = IF passStart = {} THEN clientsMu ELSE "unlocked"
    /\ npc' = "wait"
    /\ passStart' = {} /\ deadAtStart' = {} /\ delivered' = {} /\ failed' = {}
    /\ UNCHANGED <<clients, pc, conn, closeCalls, recv, frames, todo, cur, nb, panicked>>
    /\ UNCHANGED detectorVars

\* the range loop is exhausted: deferred clientsMu.Unlock(), return to the
\* detector; what the pass saw and did is gone with its frame
notifyClients_Unlock ==
    /\ npc = "range"
    /\ todo = {}
    /\ clientsMu' = "unlocked"
    /\ npc' = "wait"
    /\ passStart' = {} /\ deadAtStart' = {} /\ delivered' = {} /\ failed' = {}
    /\ UNCHANGED <<clients, pc, conn, closeCalls, recv, frames, todo, cur, nb, panicked>>
    /\ UNCHANGED detectorVars

(***************************************************************************)
(* main.go: handleEventSource                                              *)
(***************************************************************************)
\* messageChan := make(chan bool); Lock; clients[messageChan] = true; Unlock
handleEventSource_Register(c) ==
    /\ pc[c] = "start"
    /\ clientsMu = "unlocked"
    /\ clients' = MapInsert(clients, c)
    /\ pc' = [pc EXCEPT ![c] = "registered"]
    /\ UNCHANGED <<clientsMu, conn, closeCalls, recv, frames, notifierVars, panicked>>
    /\ UNCHANGED detectorVars

\* w is no http.Flusher: http.Error and return (the deferred cleanup is pending)
handleEventSource_NoFlusher(c) ==
    /\ pc[c] = "registered"
    /\ pc' = [pc EXCEPT ![c] = "deferred"]
    /\ UNCHANGED <<clients, clientsMu, conn, closeCalls, recv, frames, notifierVars, panicked>>
    /\ UNCHANGED detectorVars

\* CloseNotify(), the "connected" frame and its Flush; then the first select.
\* A write to a dead connection fails and the error is ignored.  A write that
\* blocks on a slow browser is the endpoint not taking its next step: no
\* fairness is assumed of the endpoints, so the stall needs no state.
handleEventSource_Connected(c) ==
    /\ pc[c] = "registered"
    /\ pc' = [pc EXCEPT ![c] = "select"]
    /\ UNCHANGED <<clients, clientsMu, conn, closeCalls, recv, frames, notifierVars, panicked>>
    /\ UNCHANGED detectorVars

\* case <-notify: return
handleEventSource_CloseNotify(c) ==
    /\ pc[c] = "select"
    /\ conn[c] = "dead"
    /\ pc' = [pc EXCEPT ![c] = "deferred"]
    /\ UNCHANGED <<clients, clientsMu, conn, closeCalls, recv, frames, notifierVars, panicked>>
    /\ UNCHANGED detectorVars

\* case <-time.After(25 * time.Second): the endpoint leaves the select
handleEventSource_Timeout(c) ==
    /\ pc[c] = "select"
    /\ pc' = [pc EXCEPT ![c] = "keepalive"]
    /\ UNCHANGED <<clients, clientsMu, conn, closeCalls, recv, frames, notifierVars, panicked>>
    /\ UNCHANGED detectorVars

\* the keep-alive comment and its Flush, back to the select
handleEventSource_KeepAlive(c) ==
    /\ pc[c] = "keepalive"
    /\ pc' = [pc EXCEPT ![c] = "select"]
    /\ UNCHANGED <<clients, clientsMu, conn, closeCalls, recv, frames, notifierVars, panicked>>
    /\ UNCHANGED detectorVars

\* frames handed to a writer that emits the newest first
WriteFramePrepend(log, b) == <<b>> \o log

\* fmt.Fprintf(w, "event: reload..."): the frame as the peer sees it
WriteFrame(log, b) == Append(log, b)

\* case <-messageChan (taken in notifyClients_Send): the reload frame and its
\* Flush, back to the select.  On a dead connection the write fails silently.
handleEventSource_Reload(c) ==
    /\ pc[c] = "reload"
    /\ frames' = [frames EXCEPT ![c] = IF conn[c] = "open" THEN WriteFrame(@, recv[c]) ELSE @]
    /\ recv' = [recv EXCEPT ![c] = 0]
    /\ pc' = [pc EXCEPT ![c] = "select"]
    /\ UNCHANGED <<clients, clientsMu, conn, closeCalls, notifierVars, panicked>>
    /\ UNCHANGED detectorVars

\* the deferred func without its delete: the channel is closed and stays a key
handleEventSource_DeferredNoDelete(c) ==
    /\ pc[c] = "deferred"
    /\ clientsMu = "unlocked"
    /\ closeCalls' = [closeCalls EXCEPT ![c] = @ + 1]
    /\ panicked' = (panicked \/ closeCalls[c] > 0)
    /\ pc' = [pc EXCEPT ![c] = "done"]
    /\ UNCHANGED <<clients, clientsMu, conn, recv, frames, notifierVars>>
    /\ UNCHANGED detectorVars

\* the deferred func: Lock; delete(clients, messageChan); close(messageChan); Unlock
handleEventSource_Deferred(c) ==
    /\ pc[c] = "deferred"
    /\ clientsMu = "unlocked"
    /\ clients' = MapDelete(clients, c)
    /\ closeCalls' = [closeCalls EXCEPT ![c] = @ + 1]
    /\ panicked' = (panicked \/ closeCalls[c] > 0)
    /\ pc' = [pc EXCEPT ![c] = "done"]
    /\ UNCHANGED <<clientsMu, conn, recv, frames, notifierVars>>
    /\ UNCHANGED detectorVars

(***************************************************************************)
(* main.go: notifyClients                                                  *)
(***************************************************************************)
\* a send on an unbuffered channel inside select/default proceeds only if the
\* receiver is blocked in its select at that instant
ReceiverReady(c) == pc[c] = "select"

\* a plain `client <- true`: the broadcaster waits for the receiver
notifyClients_SendBlocking(c) ==
    /\ npc = "range"
    /\ c \in todo
    /\ closeCalls[c] = 0 /\ ReceiverReady(c)
    /\ todo' = todo \ {c}
    /\ pc' = [pc EXCEPT ![c] = "reload"]
    /\ recv' = [recv EXCEPT ![c] = nb]
    /\ delivered' = delivered \cup {c}
    /\ UNCHANGED <<clients, clientsMu, conn, closeCalls, frames, npc, cur, nb,
                   passStart, deadAtStart, failed, panicked>>
    /\ UNCHANGED detectorVars

\* select { case client <- true: default: } for one entry of the map
notifyClients_Send(c) ==
    /\ npc = "range"
    /\ c \in todo
    /\ todo' = todo \ {c}
    /\ panicked' = (panicked \/ closeCalls[c] > 0)
    /\ IF closeCalls[c] = 0 /\ ReceiverReady(c)
       THEN /\ pc' = [pc EXCEPT ![c] = "reload"]
            /\ recv' = [recv EXCEPT ![c] = nb]
            /\ delivered' = delivered \cup {c}
       ELSE UNCHANGED <<pc, recv, delivered>>
    /\ UNCHANGED <<clients, clientsMu, conn, closeCalls, frames, npc, cur, nb,
                   passStart, deadAtStart, failed>>
    /\ UNCHANGED detectorVars

NextSSE ==
    \/ DetectChange
    \/ notifyClients_Lock
    \/ notifyClients_Unlock
    \/ \E c \in Handles :
        \/ PeerClose(c)
        \/ handleEventSource_Register(c)
        \/ handleEventSource_NoFlusher(c)
        \/ handleEventSource_Connected(c)
        \/ handleEventSource_CloseNotify(c)
        \/ handleEventSource_Timeout(c)
        \/ handleEventSource_KeepAlive(c)
        \/ handleEventSource_Reload(c)
        \/ handleEventSource_Deferred(c)
        \/ notifyClients_Send(c)


(***************************************************************************)
(* part_001: handleWebSocket                                               *)
(***************************************************************************)
\* upgrader.Upgrade fails: logged, return; nothing was registered or deferred
handleWebSocket_UpgradeError(c) ==
    /\ pc[c] = "start"
    /\ pc' = [pc EXCEPT ![c] = "done"]
    /\ UNCHANGED <<clients, clientsMu, conn, closeCalls, recv, frames, notifierVars, panicked>>
    /\ UNCHANGED detectorVars

\* upgrader.Upgrade succeeds; defer conn.Close()
handleWebSocket_Upgrade(c) ==
    /\ pc[c] = "start"
    /\ conn[c] = "open"
    /\ pc' = [pc EXCEPT ![c] = "upgraded"]
    /\ UNCHANGED <<clients, clientsMu, conn, closeCalls, recv, frames, notifierVars, panicked>>
    /\ UNCHANGED detectorVars

\* Lock; clients[conn] = true; Unlock; defer func(){...}; enter the read loop
handleWebSocket_Register(c) ==
    /\ pc[c] = "upgraded"
    /\ clientsMu = "unlocked"
    /\ clients' = MapInsert(clients, c)
    /\ pc' = [pc EXCEPT ![c] = "read"]
    /\ UNCHANGED <<clientsMu, conn, closeCalls, recv, frames, notifierVars, panicked>>
    /\ UNCHANGED detectorVars

\* conn.ReadMessage() returns an error: the peer is gone, or the connection
\* was closed on this side (by notifyClients); break
ReadFails(c) == conn[c] = "dead" \/ closeCalls[c] > 0

handleWebSocket_ReadError(c) ==
    /\ pc[c] = "read"
    /\ ReadFails(c)
    /\ pc' = [pc EXCEPT ![c] = "deferred"]
    /\ UNCHANGED <<clients, clientsMu, conn, closeCalls, recv, frames, notifierVars, panicked>>
    /\ UNCHANGED detectorVars

\* second defer (runs first): Lock; delete(clients, conn); Unlock
handleWebSocket_Deferred(c) ==
    /\ pc[c] = "deferred"
    /\ clientsMu = "unlocked"
    /\ clients' = MapDelete(clients, c)
    /\ pc' = [pc EXCEPT ![c] = "closing"]
    /\ UNCHANGED <<clientsMu, conn, closeCalls, recv, frames, notifierVars, panicked>>
    /\ UNCHANGED detectorVars

\* first defer (runs last): conn.Close(); the handler returns
handleWebSocket_Close(c) ==
    /\ pc[c] = "closing"
    /\ closeCalls' = [closeCalls EXCEPT ![c] = @ + 1]
    /\ pc' = [pc EXCEPT ![c] = "done"]
    /\ UNCHANGED <<clients, clientsMu, conn, recv, frames, notifierVars, panicked>>
    /\ UNCHANGED detectorVars

(***************************************************************************)
(* part_001: notifyClients                                                 *)
(***************************************************************************)
\* client.WriteMessage returns an error: dead transport or closed connection
WriteFails(c) == conn[c] = "dead" \/ closeCalls[c] > 0

\* client.WriteMessage returns nil: the peer is draining the connection
WriteSucceeds(c) == conn[c] = "open" /\ closeCalls[c] = 0

\* the range loop produces the next entry and calls client.WriteMessage, which
\* is synchronous and has no write deadline
notifyClients_Write(c) ==
    /\ npc = "range"
    /\ c \in todo
    /\ cur' = c
    /\ npc' = "write"
    /\ UNCHANGED <<clients, clientsMu, pc, conn, closeCalls, recv, frames, todo, nb,
                   passVars, panicked>>
    /\ UNCHANGED detectorVars

\* WriteMessage returned nil
notifyClients_WriteOk ==
    /\ npc = "write"
    /\ WriteSucceeds(cur)
    /\ frames' = [frames EXCEPT ![cur] = WriteFrame(@, nb)]
    /\ delivered' = delivered \cup {cur}
    /\ todo' = todo \ {cur}
    /\ cur' = 0
    /\ npc' = "range"
    /\ UNCHANGED <<clients, clientsMu, pc, conn, closeCalls, recv, nb,
                   passStart, deadAtStart, failed, panicked>>
    /\ UNCHANGED detectorVars

\* the error branch with a `return` after the delete: the pass is abandoned
notifyClients_WriteErrorReturn ==
    /\ npc = "write"
    /\ WriteFails(cur)
    /\ closeCalls' = [closeCalls EXCEPT ![cur] = @ + 1]
    /\ clients' = MapDelete(clients, cur)
    /\ failed' = failed \cup {cur}
    /\ todo' = {}
    /\ cur' = 0
    /\ npc' = "range"
    /\ UNCHANGED <<clientsMu, pc, conn, recv, frames, nb,
                   passStart, deadAtStart, delivered, panicked>>
    /\ UNCHANGED detectorVars

\* the error branch without the delete: the closed handle stays registered
notifyClients_WriteErrorKeep ==
    /\ npc = "write"
    /\ WriteFails(cur)
    /\ closeCalls' = [closeCalls EXCEPT ![cur] = @ + 1]
    /\ failed' = failed \cup {cur}
    /\ todo' = todo \ {cur}
    /\ cur' = 0
    /\ npc' = "range"
    /\ UNCHANGED <<clients, clientsMu, pc, conn, recv, frames, nb,
                   passStart, deadAtStart, delivered, panicked>>
    /\ UNCHANGED detectorVars

\* WriteMessage returned an error: log, client.Close(), delete(clients, client)
notifyClients_WriteError ==
    /\ npc = "write"
    /\ WriteFails(cur)
    /\ closeCalls' = [closeCalls EXCEPT ![cur] = @ + 1]
    /\ clients' = MapDelete(clients, cur)
    /\ failed' = failed \cup {cur}
    /\ todo' = todo \ {cur}
    /\ cur' = 0
    /\ npc' = "range"
    /\ UNCHANGED <<clientsMu, pc, conn, recv, frames, nb,
                   passStart, deadAtStart, delivered, panicked>>
    /\ UNCHANGED detectorVars

NextWS ==
    \/ DetectChange
    \/ notifyClients_Lock
    \/ notifyClients_WriteOk
    \/ notifyClients_WriteError
    \/ notifyClients_Unlock
    \/ \E c \in Handles :
        \/ PeerStall(c)
        \/ PeerClose(c)
        \/ handleWebSocket_UpgradeError(c)
        \/ handleWebSocket_Upgrade(c)
        \/ handleWebSocket_Register(c)
        \/ handleWebSocket_ReadError(c)
        \/ handleWebSocket_Deferred(c)
        \/ handleWebSocket_Close(c)
        \/ notifyClients_Write(c)


(***************************************************************************)
(* part_001: watchForChanges.  A name is the sequence of the pieces of a   *)
(* file name ("." and "~" are pieces of their own), a path the sequence of *)
(* the names below the watched root.                                       *)
(***************************************************************************)
DirNames == { <<"src">>, <<".", "git">>, <<"node_modules">>, <<"bak", "~">> }
FileNames == { <<"x", ".", "js">>, <<"y", ".", "tmp">> }

Root == <<>>
DirPaths == { <<d>> : d \in DirNames }
FilePaths == { <<f>> : f \in FileNames } \cup { <<d, <<"x", ".", "js">> >> : d \in DirNames }

\* filepath.Base(path)
Base(path) == path[Len(path)]

\* the parent directory of a path
Dir(path) == SubSeq(path, 1, Len(path) - 1)

\* info.IsDir()
IsDir(path) == path = Root \/ path \in DirPaths

\* basename[0] == '.' || basename == "node_modules"
Excluded(name) == name[1] = "." \/ name = <<"node_modules">>

\* the suffix test with the ".tmp" alternative left out
HasTempSuffixTildeOnly(path) ==
    LET name == Base(path) IN name[Len(name)] = "~"

\* strings.HasSuffix(event.Name, "~") || strings.HasSuffix(event.Name, ".tmp")
HasTempSuffix(path) ==
    LET name == Base(path) IN
    \/ name[Len(name)] = "~"
    \/ (Len(name) >= 2 /\ name[Len(name) - 1] = "." /\ name[Len(name)] = "tmp")

\* the start-up filepath.Walk: every directory reached without descending into
\* an excluded one is added to the watcher (the root's own name is not excluded)
WalkAdd(t) == {Root} \cup {p \in DirPaths : p \in t /\ ~Excluded(Base(p))}

\* the zero time.Time of `var lastEvent time.Time`
ZeroTime == -1

\* 100*time.Millisecond
DebounceWindow == 100

\* time.Since(t); for the zero Time the subtraction saturates at the maximal Duration
Since(t) == IF t = ZeroTime THEN DebounceWindow + MaxTime + 1 ELSE now - t

\* a debouncer that also drops a signal at exactly the window length
DebouncedStrict(t) == Since(t) <= DebounceWindow

\* time.Since(lastEvent) < 100*time.Millisecond: the signal is dropped
Debounced(t) == Since(t) < DebounceWindow

\* the directories the dynamic registration may add, were the start-up
\* exclusion rule applied to it as well
WatchableStrict(path) == IsDir(path) /\ ~Excluded(Base(path))

\* err == nil && info.IsDir() of the os.Stat in the Create branch
Watchable(path) == path \in tree /\ IsDir(path)

InitWatch ==
    /\ tree \in SUBSET DirPaths
    /\ watched = WalkAdd(tree)
    /\ events = <<>>
    /\ now = 0
    /\ lastEvent = ZeroTime
    /\ raw = <<>>
    /\ fwd = <<>>
    /\ ops = 0

\* the detector is not part of a hub specification
IdleWatch ==
    /\ tree = {}
    /\ watched = {}
    /\ events = <<>>
    /\ now = 0
    /\ lastEvent = ZeroTime
    /\ raw = <<>>
    /\ fwd = <<>>
    /\ ops = 0

\* inotify reports an operation on an entry of a watched directory
Emit(path, op) ==
    IF Dir(path) \in watched
    THEN events' = Append(events, [name |-> path, op |-> op])
    ELSE UNCHANGED events

\* the clock advances
Tick ==
    /\ \E d \in {40, 50, 60} : now + d <= MaxTime /\ now' = now + d
    /\ UNCHANGED <<tree, watched, events, lastEvent, raw, fwd, ops>>
    /\ UNCHANGED <<hubVars, pollVars>>

\* somebody creates a directory below the root
Mkdir(path) ==
    /\ ops < MaxOps /\ Len(events) < MaxQueue
    /\ path \in DirPaths \ tree
    /\ tree' = tree \cup {path}
    /\ Emit(path, "create")
    /\ ops' = ops + 1
    /\ UNCHANGED <<watched, now, lastEvent, raw, fwd>>
    /\ UNCHANGED <<hubVars, pollVars>>

\* somebody creates a file in the root or in an existing directory
CreateFile(path) ==
    /\ ops < MaxOps /\ Len(events) < MaxQueue
    /\ path \in FilePaths \ tree
    /\ Dir(path) = Root \/ Dir(path) \in tree
    /\ tree' = tree \cup {path}
    /\ Emit(path, "create")
    /\ ops' = ops + 1
    /\ UNCHANGED <<watched, now, lastEvent, raw, fwd>>
    /\ UNCHANGED <<hubVars, pollVars>>

\* somebody writes to an existing file
WriteFile(path) ==
    /\ ops < MaxOps /\ Len(events) < MaxQueue
    /\ path \in FilePaths \cap tree
    /\ Emit(path, "write")
    /\ ops' = ops + 1
    /\ UNCHANGED <<tree, watched, now, lastEvent, raw, fwd>>
    /\ UNCHANGED <<hubVars, pollVars>>

\* somebody removes an existing file
RemoveFile(path) ==
    /\ ops < MaxOps /\ Len(events) < MaxQueue
    /\ path \in FilePaths \cap tree
    /\ tree' = tree \ {path}
    /\ Emit(path, "remove")
    /\ ops' = ops + 1
    /\ UNCHANGED <<watched, now, lastEvent, raw, fwd>>
    /\ UNCHANGED <<hubVars, pollVars>>

\* case event, ok := <-watcher.Events: one turn of the loop, to its `continue`
\* or to the return of notifyClients
watchForChanges_Event ==
    /\ events # <<>>
    /\ LET event == Head(events) IN
       /\ events' = Tail(events)
       /\ IF HasTempSuffix(event.name)
          THEN UNCHANGED <<watched, lastEvent, raw, fwd>>
          ELSE /\ raw' = Append(raw, now)
               /\ IF Debounced(lastEvent)
                  THEN UNCHANGED <<watched, lastEvent, fwd>>
                  ELSE /\ lastEvent' = now
                       /\ watched' = IF event.op = "create" /\ Watchable(event.name)
                                     THEN watched \cup {event.name}
                                     ELSE watched
                       /\ fwd' = Append(fwd, [at |-> now, name |-> event.name, op |-> event.op])
    /\ UNCHANGED <<tree, now, ops>>
    /\ UNCHANGED <<hubVars, pollVars>>

\* case err, ok := <-watcher.Errors: logged, the loop goes on
watchForChanges_Error ==
    /\ UNCHANGED watchVars
    /\ UNCHANGED <<hubVars, pollVars>>

NextWatch ==
    \/ Tick
    \/ \E path \in DirPaths : Mkdir(path)
    \/ \E path \in FilePaths :
        \/ CreateFile(path)
        \/ WriteFile(path)
        \/ RemoveFile(path)
    \/ watchForChanges_Event
    \/ watchForChanges_Error

(***************************************************************************)
(* main.go: the polling detector (scanDirectory, watchDirectoryForChanges) *)
(***************************************************************************)
RootNames == { <<"www">>, <<".", "site">> }
PollDirNames == { <<"src">>, <<".", "git">>, <<"node_modules">> }
PollDirPaths == { <<d>> : d \in PollDirNames }
PollFilePaths ==
    { << <<"x", ".", "js">> >> } \cup { <<d, <<"x", ".", "js">> >> : d \in PollDirNames }
PollPaths == {Root} \cup PollDirPaths \cup PollFilePaths

Mtimes == 1..MaxMtime

\* filepath.Base(path); the root is walked under the name it was given
PollBase(path) == IF path = Root THEN rootName ELSE Base(path)

\* the map with no keys: make(map[string]time.Time)
EmptyMap == [p \in {} |-> 0]

\* the Walk callback is called for `path`: none of the directories above it
\* returned filepath.SkipDir
Reached(path) == \A k \in 0..(Len(path) - 1) : ~Excluded(PollBase(SubSeq(path, 1, k)))

\* scanDirectory(dir) on the tree f, with no error: every entry the walk
\* reaches whose own base name is not excluded, directories included
scanDirectory(f) ==
    [p \in { q \in DOMAIN f : Reached(q) /\ ~Excluded(PollBase(q)) } |-> f[p]]

\* t.After(u) with != in the place of After
AfterNotEqual(t, u) == t # u

\* modTime.After(prevModTime)
After(t, u) == t > u

\* the baseline is replaced only in a cycle that found a change
NextBaselineOnChange(prev, current, changes) == IF changes THEN current ELSE prev

\* prevFiles = currentFiles, before the `if changes`
NextBaseline(prev, current, changes) == current

\* the two range loops of the cycle
Changes(prev, current) ==
    \/ \E path \in DOMAIN current :
          path \notin DOMAIN prev \/ After(current[path], prev[path])
    \/ \E path \in DOMAIN prev : path \notin DOMAIN current

InitPoll ==
    /\ rootName \in RootNames
    /\ \E files \in SUBSET PollFilePaths : \E m \in Mtimes :
          fs = [p \in {Root} \cup PollDirPaths \cup files |-> m]
    /\ ppc = "init"
    /\ prevFiles = EmptyMap
    /\ prevBefore = EmptyMap
    /\ lastScan = "none"
    /\ polls = 0
    /\ notified = 0
    /\ fsOps = 0

\* the polling detector is not part of the specification
IdlePoll ==
    /\ rootName = <<"www">>
    /\ fs = EmptyMap
    /\ ppc = "init"
    /\ prevFiles = EmptyMap
    /\ prevBefore = EmptyMap
    /\ lastScan = "none"
    /\ polls = 0
    /\ notified = 0
    /\ fsOps = 0

\* a file appears in the tree
FsCreate(path, t) ==
    /\ fsOps < MaxFsOps
    /\ path \notin DOMAIN fs
    /\ fs' = [p \in DOMAIN fs \cup {path} |-> IF p = path THEN t ELSE fs[p]]
    /\ fsOps' = fsOps + 1
    /\ UNCHANGED <<rootName, ppc, prevFiles, prevBefore, lastScan, polls, notified>>
    /\ UNCHANGED <<hubVars, watchVars>>

\* a file disappears from the tree
FsRemove(path) ==
    /\ fsOps < MaxFsOps
    /\ path \in DOMAIN fs
    /\ fs' = [p \in DOMAIN fs \ {path} |-> fs[p]]
    /\ fsOps' = fsOps + 1
    /\ UNCHANGED <<rootName, ppc, prevFiles, prevBefore, lastScan, polls, notified>>
    /\ UNCHANGED <<hubVars, watchVars>>

\* an entry's modification time is set (a write, a touch, a restored backup):
\* forward or backward
FsSetModTime(path, t) ==
    /\ fsOps < MaxFsOps
    /\ path \in DOMAIN fs
    /\ fs[path] # t
    /\ fs' = [fs EXCEPT ![path] = t]
    /\ fsOps' = fsOps + 1
    /\ UNCHANGED <<rootName, ppc, prevFiles, prevBefore, lastScan, polls, notified>>
    /\ UNCHANGED <<hubVars, watchVars>>

\* prevFiles, err := scanDirectory(dir) with err == nil
watchDirectoryForChanges_InitialScan ==
    /\ ppc = "init"
    /\ prevFiles' = scanDirectory(fs)
    /\ lastScan' = "ok"
    /\ ppc' = "loop"
    /\ UNCHANGED <<rootName, fs, prevBefore, polls, notified, fsOps>>
    /\ UNCHANGED <<hubVars, watchVars>>

\* the initial scan fails: log.Fatal
watchDirectoryForChanges_InitialScanError ==
    /\ ppc = "init"
    /\ lastScan' = "error"
    /\ ppc' = "fatal"
    /\ UNCHANGED <<rootName, fs, prevFiles, prevBefore, polls, notified, fsOps>>
    /\ UNCHANGED <<hubVars, watchVars>>

\* a tick whose scan fails and whose partial map becomes the baseline
watchDirectoryForChanges_ScanErrorAdopt ==
    /\ ppc = "loop"
    /\ polls < MaxPolls
    /\ polls' = polls + 1
    /\ lastScan' = "error"
    /\ prevFiles' = EmptyMap
    /\ UNCHANGED <<rootName, fs, ppc, prevBefore, notified, fsOps>>
    /\ UNCHANGED <<hubVars, watchVars>>

\* a tick whose scan fails: log.Println, continue
watchDirectoryForChanges_ScanError ==
    /\ ppc = "loop"
    /\ polls < MaxPolls
    /\ polls' = polls + 1
    /\ lastScan' = "error"
    /\ UNCHANGED <<rootName, fs, ppc, prevFiles, prevBefore, notified, fsOps>>
    /\ UNCHANGED <<hubVars, watchVars>>

\* a tick whose scan succeeds: compare, replace the baseline, notify
watchDirectoryForChanges_Cycle ==
    /\ ppc = "loop"
    /\ polls < MaxPolls
    /\ polls' = polls + 1
    /\ lastScan' = "ok"
    /\ LET currentFiles == scanDirectory(fs)
           changes == Changes(prevFiles, currentFiles)
       IN  /\ prevBefore' = prevFiles
           /\ prevFiles' = NextBaseline(prevFiles, currentFiles, changes)
           /\ notified' = IF changes THEN notified + 1 ELSE notified
    /\ UNCHANGED <<rootName, fs, ppc, fsOps>>
    /\ UNCHANGED <<hubVars, watchVars>>

NextPoll ==
    \/ \E path \in PollFilePaths : \E t \in Mtimes : FsCreate(path, t)
    \/ \E path \in PollFilePaths : FsRemove(path)
    \/ \E path \in PollPaths : \E t \in Mtimes : FsSetModTime(path, t)
    \/ watchDirectoryForChanges_InitialScan
    \/ watchDirectoryForChanges_InitialScanError
    \/ watchDirectoryForChanges_ScanError
    \/ watchDirectoryForChanges_Cycle

(***************************************************************************)
(* The specifications.                                                     *)
(***************************************************************************)
\* the hubs start with the detector left out
InitSSE == InitHub /\ IdleWatch /\ IdlePoll

InitWS == InitHub /\ IdleWatch /\ IdlePoll

\* the detector of part_001 alone: no connection is ever accepted
InitWatchAlone == InitHub /\ InitWatch /\ IdlePoll

\* the polling detector of main.go alone
InitPollAlone == InitHub /\ IdleWatch /\ InitPoll

SpecSSE == InitSSE /\ [][NextSSE]_vars

SpecWS == InitWS /\ [][NextWS]_vars

SpecWatch == InitWatchAlone /\ [][NextWatch]_vars

SpecPoll == InitPollAlone /\ [][NextPoll]_vars

\* The scheduler runs every goroutine that can take a step; the browsers and
\* the file system owe the server nothing.
FairWS ==
    /\ WF_vars(notifyClients_Lock)
    /\ WF_vars(notifyClients_WriteOk)
    /\ WF_vars(notifyClients_WriteError)
    /\ WF_vars(notifyClients_Unlock)
    /\ \A c \in Handles :
        /\ WF_vars(notifyClients_Write(c))
        /\ WF_vars(handleWebSocket_Register(c))
        /\ WF_vars(handleWebSocket_ReadError(c))
        /\ WF_vars(handleWebSocket_Deferred(c))
        /\ WF_vars(handleWebSocket_Close(c))

FairSpecWS == InitWS /\ [][NextWS]_vars /\ FairWS

\* The scheduler runs the detector task whenever it can take a step; nothing
\* is assumed of the session endpoints or of the browsers.
FairSSE ==
    /\ WF_vars(notifyClients_Lock)
    /\ WF_vars(notifyClients_Unlock)
    /\ \A c \in Handles : WF_vars(notifyClients_Send(c))

FairSpecSSE == InitSSE /\ [][NextSSE]_vars /\ FairSSE

(***************************************************************************)
(* Properties.                                                             *)
(***************************************************************************)
\* the range loop of the running pass has produced every entry
PassDone == npc = "range" /\ todo = {}

\* the pass wrote its message to c as the last frame c has seen
GotCurrent(c) == Len(frames[c]) > 0 /\ frames[c][Len(frames[c])] = nb

\* C1: WebSocket hub.  When a pass that started with exactly one dead handle in
\* the registry has gone through the map, the dead handle is out of the registry
\* and every other handle of the pass has had its write: the message was
\* written to it, or it died during the pass and was removed too.
C1_BrokenClientIsolated ==
    (PassDone /\ Cardinality(deadAtStart) = 1) =>
        /\ deadAtStart \cap clients = {}
        /\ \A c \in passStart \ deadAtStart :
            \/ c \in delivered /\ GotCurrent(c)
            \/ c \in failed /\ conn[c] = "dead" /\ c \notin clients

C1_Witness ==
    /\ PassDone
    /\ Cardinality(deadAtStart) = 1
    /\ Cardinality(passStart) = NClients
    /\ delivered = passStart \ deadAtStart
    /\ \A c \in delivered : GotCurrent(c)

\* the broadcaster is inside a WriteMessage that neither returns nil nor fails
WriteBlocked == npc = "write" /\ ~WriteSucceeds(cur) /\ ~WriteFails(cur)

\* C2: a client whose delivery neither completes nor fails never keeps the pass
\* from attempting the other clients registered at its start: the broadcaster is
\* never held in a write to such a client while entries are still unvisited.
C2_SlowClientNeverBlocksOthers == ~(WriteBlocked /\ todo \ {cur} # {})

\* C3: SSE hub.  When a pass has gone through the map, every client that was
\* registered at its start and whose connection is open holds the message of
\* this broadcast or has written its reload frame.
C3_EveryRegisteredClientGetsReload ==
    PassDone => \A c \in passStart :
        conn[c] = "open" => (recv[c] = nb \/ GotCurrent(c))

\* C4: WebSocket hub.  The deferred delete of a handler whose handle is already
\* out of the registry changes nothing in the registry and does not panic.
C4_DeregisterIdempotent ==
    [][\A c \in Handles :
        (pc[c] = "deferred" /\ pc'[c] = "closing" /\ c \notin clients)
            => (clients' = clients /\ panicked' = panicked)]_vars

\* both removals of one handle have happened (Close by the broadcaster and by
\* the handler) while another handle is registered
C4_Witness ==
    \E c \in Handles : closeCalls[c] = 2 /\ pc[c] = "done" /\ clients # {}

\* C5: every session whose connection has ended is eventually deregistered.
C5_EndedSessionEventuallyDeregistered ==
    \A c \in Handles : (c \in clients /\ conn[c] = "dead") ~> (c \notin clients)

\* the safety half of C5: a handler that has returned is not in the registry
C5_ReturnedImpliesDeregistered == \A c \in Handles : pc[c] = "done" => c \notin clients

SignalHandled == events # <<>> /\ events' = Tail(events) /\ ~HasTempSuffix(Head(events).name)

\* that turn called notifyClients
SignalForwarded == Len(fwd') = Len(fwd) + 1

\* the times of the forwarded signals
ForwardTimes == [i \in 1..Len(fwd) |-> fwd[i].at]

\* C7 as stated: a signal is forwarded iff it is the first or more than the
\* window has passed since the last forwarded one.
C7_ForwardedIffExceedsWindow ==
    [][SignalHandled =>
        (SignalForwarded <=> (lastEvent = ZeroTime \/ now - lastEvent > DebounceWindow))]_vars

\* C7 amended: a signal is forwarded iff it is the first or at least the window
\* has passed since the last forwarded one; a forwarded signal is forwarded at
\* the time it is handled; signals at 0, 40 and 150 ms forward the first and
\* the third only.
C7_ForwardedIffAtLeastWindow ==
    /\ [](raw = <<0, 40, 150>> => ForwardTimes = <<0, 150>>)
    /\ [][SignalHandled =>
            /\ SignalForwarded <=> (lastEvent = ZeroTime \/ now - lastEvent >= DebounceWindow)
            /\ SignalForwarded => (fwd'[Len(fwd')].at = now /\ lastEvent' = now)
            /\ ~SignalForwarded => (fwd' = fwd /\ lastEvent' = lastEvent)]_vars

C7_Witness == raw = <<0, 40, 150>> /\ Len(fwd) = 2

\* a file inside a directory named ".xxx" or "node_modules"
InExcludedDir(path) == Len(path) = 2 /\ Excluded(path[1])

\* C8: the creation of a file inside an excluded directory never makes the
\* detector call notifyClients.
C8_ExcludedDirNeverNotifies ==
    \A i \in 1..Len(fwd) : ~(InExcludedDir(fwd[i].name) /\ fwd[i].op = "create")

\* C9: SSE hub.  The reload frames a client sees carry strictly increasing
\* broadcast numbers, and a message still held by its endpoint is of a later
\* broadcast than every frame already written.
C9_FramesInBroadcastOrder ==
    \A c \in Handles :
        /\ \A i, j \in 1..Len(frames[c]) : i < j => frames[c][i] < frames[c][j]
        /\ recv[c] # 0 => \A i \in 1..Len(frames[c]) : frames[c][i] < recv[c]

C9_Witness == \E c \in Handles : Len(frames[c]) = MaxBroadcasts

\* C10: SSE hub.  A pass over an empty registry has nothing to visit and can
\* return at once; when it returns the registry is still empty, the lock is
\* released, nothing has panicked and the detector is back in its loop.
C10_EmptyBroadcastIsNoOp ==
    /\ []((npc = "range" /\ passStart = {}) =>
            (todo = {} /\ clients = {} /\ ENABLED notifyClients_Unlock))
    /\ [][(npc = "range" /\ passStart = {} /\ npc' # npc) =>
            (npc' = "wait" /\ clients' = {} /\ clientsMu' = "unlocked" /\ ~panicked')]_vars

\* no connection was ever accepted, an empty pass has returned and the detector
\* is inside the next one
C10_Witness ==
    /\ nb = MaxBroadcasts /\ npc = "range" /\ passStart = {}
    /\ \A c \in Handles : pc[c] = "start"

\* the endpoint of c is at a clientsMu.Lock() of its own (register or deferred
\* delete) and cannot take it
WaitsForLock(c) == pc[c] \in {"upgraded", "deferred"} /\ clientsMu # "unlocked"

\* C11: WebSocket hub.  No register or deregister waits for clientsMu while the
\* broadcaster, holding it, is inside a write that has not returned.
C11_LockNotHeldAcrossSlowWrite ==
    ~(WriteBlocked /\ \E c \in Handles : WaitsForLock(c))

\* C12: every Create event of an existing, not excluded directory whose path
\* has no temporary suffix leaves that directory registered with the watcher.
C12_CreatedDirAlwaysWatched ==
    [][(/\ SignalHandled
        /\ Head(events).op = "create"
        /\ Watchable(Head(events).name)
        /\ ~Excluded(Base(Head(events).name)))
        => Head(events).name \in watched']_vars

\* C13: SSE hub.  An endpoint whose response writer turns out not to support
\* streaming (the step from "registered" to the deferred cleanup) is not in the
\* registry.
C13_RegisteredOnlyAfterHandshake ==
    [][\A c \in Handles :
        (pc[c] = "registered" /\ pc'[c] = "deferred") => c \notin clients]_vars

\* a path ending in "~" or in ".tmp", read off the pieces of its last name
EndsInTildeOrTmp(path) ==
    LET n == path[Len(path)] IN
    \/ n[Len(n)] = "~"
    \/ \E k \in 1..(Len(n) - 1) : k = Len(n) - 1 /\ n[k] = "." /\ n[k + 1] = "tmp"

\* C16: a raw event whose path ends in "~" or ".tmp" is taken off the channel
\* and changes nothing else: no notifyClients call, no directory registered, the
\* debouncer's timestamp and its record of raw signals as they were.
C16_TempEventIgnored ==
    [][(events # <<>> /\ events' = Tail(events) /\ EndsInTildeOrTmp(Head(events).name))
        => UNCHANGED <<watched, lastEvent, raw, fwd>>]_vars

\* a temporary file's event and the Create event of a directory named "bak~"
\* have both been dropped, and the signal after them was forwarded
C16_Witness ==
    /\ ops = MaxOps /\ events = <<>>
    /\ <<<<"bak", "~">>>> \in tree \ watched
    /\ <<<<"y", ".", "tmp">>>> \in tree
    /\ Len(raw) = 1 /\ Len(fwd) = 1

\* C17: SSE hub.  No key of the registry is a closed channel, a close happens
\* in the step that removes the key, with the lock free to take, and no send on
\* a closed channel has panicked.
C17_NoSendOnClosedChannel ==
    /\ [](~panicked /\ \A c \in clients : closeCalls[c] = 0)
    /\ [][\A c \in Handles : closeCalls'[c] # closeCalls[c] =>
            (clientsMu = "unlocked" /\ c \in clients /\ c \notin clients')]_vars

\* a pass is going through the map after one endpoint has closed its channel
C17_Witness ==
    /\ npc = "range" /\ passStart # {}
    /\ \E c \in Handles : closeCalls[c] = 1 /\ pc[c] = "done"

\* C18: SSE hub.  A pass that was called for returns with clientsMu released
\* (so an endpoint waiting for the lock gets its turn), whatever the endpoints
\* do, and the broadcaster can always take its next step.
C18_PassTerminates ==
    /\ (npc # "wait") ~> (npc = "wait" /\ clientsMu = "unlocked")
    /\ [](npc = "lock" => ENABLED notifyClients_Lock)
    /\ [](npc = "range" =>
            (ENABLED notifyClients_Unlock \/ \E c \in Handles : ENABLED notifyClients_Send(c)))

\* a pass is under way while one endpoint has not reached its select, and
\* another is about to deregister
C18_Witness ==
    /\ npc = "range" /\ todo # {}
    /\ \E c \in todo : pc[c] \in {"registered", "keepalive", "reload"}
    /\ \E c \in Handles : pc[c] = "deferred"

\* C19: WebSocket hub.  After notifyClients has removed a client because the
\* write to it failed, that client's connection is closed, its session
\* endpoint eventually leaves the read loop and returns, and the handle is
\* never inserted into the registry again.
C19_RemovedEndpointEventuallyReturns ==
    /\ [](\A c \in failed : closeCalls[c] > 0)
    /\ [][\A c \in Handles : (closeCalls[c] > 0 /\ c \notin clients) => c \notin clients']_vars
    /\ \A c \in Handles : (c \in failed) ~> (pc[c] = "done")

\* a tick of the polling detector whose scan succeeded
CycleOk == polls' = polls + 1 /\ lastScan' = "ok"

\* a tick of the polling detector whose scan failed
CycleFailed == polls' = polls + 1 /\ lastScan' = "error"

\* paths of `new` absent from `prev` or strictly later than in `prev`, and
\* paths of `prev` absent from `new`
ChangedOrDeleted(prev, new) ==
    { p \in DOMAIN new : p \notin DOMAIN prev \/ new[p] > prev[p] }
        \cup (DOMAIN prev \ DOMAIN new)

\* C14: a successful poll cycle calls notifyClients exactly once when the
\* changed-or-deleted set of the baseline and the new snapshot is non-empty
\* and not at all when it is empty; after an emitting cycle the new snapshot
\* is the baseline.
C14_NotifyOnceIffChangedOrDeleted ==
    [][CycleOk =>
        LET D == ChangedOrDeleted(prevFiles, scanDirectory(fs))
        IN  /\ notified' = notified + (IF D # {} THEN 1 ELSE 0)
            /\ (D # {} => prevFiles' = scanDirectory(fs))]_vars

\* a cycle has reported the deletion of a path
C14_Witness ==
    /\ lastScan = "ok" /\ polls = 1 /\ notified = 1
    /\ DOMAIN prevBefore \ DOMAIN prevFiles # {}

\* C15: a poll cycle whose scan fails keeps the baseline, calls notifyClients
\* not at all and leaves the loop running, so that the next successful cycle
\* reports what changed before or during the failed one; the process ends only
\* when the first scan fails.
C15_FailedScanKeepsState ==
    /\ [][CycleFailed =>
            (prevFiles' = prevFiles /\ notified' = notified /\ ppc' = "loop")]_vars
    /\ [][(CycleOk /\ lastScan = "error"
              /\ ChangedOrDeleted(prevFiles, scanDirectory(fs)) # {})
            => notified' = notified + 1]_vars
    /\ [][(ppc' = "fatal" /\ ppc # "fatal") => (ppc = "init" /\ polls = 0)]_vars

\* a cycle has failed while a change was waiting to be reported: it still is
C15_Witness ==
    /\ lastScan = "error" /\ polls = 1 /\ ppc = "loop" /\ notified = 0
    /\ fsOps > 0
    /\ ChangedOrDeleted(prevFiles, scanDirectory(fs)) # {}

\* C20: every successful poll cycle makes the new snapshot the baseline; a
\* successful cycle that follows a successful cycle over an unchanged tree
\* calls notifyClients not at all; and modification times that only moved
\* backward are not reported and become the baseline.
C20_BaselineReplacedEveryCycle ==
    /\ [][CycleOk => prevFiles' = scanDirectory(fs)]_vars
    /\ [][(CycleOk /\ lastScan = "ok" /\ scanDirectory(fs) = prevFiles)
            => notified' = notified]_vars
    /\ [][(CycleOk /\ DOMAIN scanDirectory(fs) = DOMAIN prevFiles
              /\ \A p \in DOMAIN prevFiles : scanDirectory(fs)[p] <= prevFiles[p])
            => (notified' = notified
                /\ \A p \in DOMAIN prevFiles : prevFiles'[p] = fs[p])]_vars

\* a cycle has taken a modification time earlier than the baseline's without
\* reporting it
C20_Witness ==
    /\ lastScan = "ok" /\ notified = 0
    /\ \E p \in DOMAIN prevFiles \cap DOMAIN prevBefore : prevFiles[p] < prevBefore[p]

=============================================================================
